---- MODULE Spec2Model ----
(***************************************************************************)
(* Model of vllm/v1/tokenizer/detokenizer.py: the Detokenizer process, its *)
(* request registry (self.requests), the incremental decode of one request *)
(* (detokenize) and the run loop that pulls a DetokenizerInputs frame,     *)
(* frees, registers and detokenizes, and pushes a DetokenizerOutputs frame.*)
(*                                                                         *)
(* Text is a sequence of one-character strings.  An exception that leaves  *)
(* run() uncaught ends the process: pc = "Crashed", error names it.        *)
(*                                                                         *)
(* An inbound payload carries req_ids and free_req_ids in full; the entry  *)
(* at index i of each of the four other arrays is bound in the step of     *)
(* run() that reaches index i, and is Missing when the array is shorter.   *)
(***************************************************************************)
EXTENDS Integers, Sequences, FiniteSets, TLC

(* ------------------------------ bounds -------------------------------- *)
\* largest number of generated token ids a request accumulates
MaxOut == 2
\* number of inbound frames (other than the sentinel) the engine sends
MaxFrames == 2
\* capacity of the outbound channel (frames queued at the PUSH socket)
Hwm == 1

ReqIds == {"r1", "r2"}

\* what the engine sends for a request at an index of prompt_token_ids,
\* skip_special_tokens and spaces_between_special_tokens
Registrations ==
    {[prompt_token_ids |-> <<1, 2, 3>>, skip_special_tokens |-> TRUE,
      spaces_between_special_tokens |-> FALSE],
     [prompt_token_ids |-> <<>>, skip_special_tokens |-> FALSE,
      spaces_between_special_tokens |-> TRUE]}

Registration(prompt_token_ids, skip, spaces) ==
    [prompt_token_ids |-> prompt_token_ids, skip_special_tokens |-> skip,
     spaces_between_special_tokens |-> spaces]

\* the entries of new_token_ids the engine sends
NewLists == {<<>>, <<4>>, <<3, 3>>}

SeqsUpTo(S, n) == UNION {[1..k -> S] : k \in 0..n}

Max(a, b) == IF a >= b THEN a ELSE b

(* ------------------------- Vocabulary Decoder ------------------------- *)
\* the sub-word token of an id: 3 is a partial (incomplete multi-byte)
\* token, 4 is a special token
TokenOf(id) ==
    CASE id = 1 -> "a"
      [] id = 2 -> "b"
      [] id = 3 -> "#"
      [] OTHER  -> "<s>"

IsSpecial(id) == id = 4

\* tokenizer.convert_ids_to_tokens(ids, skip_special_tokens)
RECURSIVE convert_ids_to_tokens(_, _)
convert_ids_to_tokens(ids, skip) ==
    IF ids = <<>> THEN <<>>
    ELSE (IF skip /\ IsSpecial(Head(ids)) THEN <<>> ELSE <<TokenOf(Head(ids))>>)
         \o convert_ids_to_tokens(Tail(ids), skip)

\* tokenizer.convert_tokens_to_string(tokens): two partial tokens in a row
\* render one character, a lone partial token renders the replacement
\* character "U"; two special tokens in a row are spaced when asked
RECURSIVE convert_tokens_to_string(_, _)
convert_tokens_to_string(toks, spaces) ==
    IF toks = <<>> THEN <<>>
    ELSE LET t == Head(toks)
             more == Len(toks) >= 2
         IN  CASE t = "#" /\ more /\ toks[2] = "#" ->
                    <<"e">> \o convert_tokens_to_string(SubSeq(toks, 3, Len(toks)), spaces)
               [] t = "#" ->
                    <<"U">> \o convert_tokens_to_string(Tail(toks), spaces)
               [] t = "<s>" ->
                    <<"S">> \o (IF spaces /\ more /\ toks[2] = "<s>" THEN <<" ">> ELSE <<>>)
                            \o convert_tokens_to_string(Tail(toks), spaces)
               [] OTHER ->
                    <<t>> \o convert_tokens_to_string(Tail(toks), spaces)

\* INITIAL_INCREMENTAL_DETOKENIZATION_OFFSET of the vocabulary decoder
InitialOffset == 1

LastN(s, n) == SubSeq(s, Max(Len(s) - n + 1, 1), Len(s))

\* tokenize_prompt: the tokens of the last InitialOffset + 2 prompt ids and
\* the two offsets into them
convert_prompt_ids_to_tokens(prompt_ids, skip) ==
    LET new_tokens == convert_ids_to_tokens(LastN(prompt_ids, InitialOffset + 2), skip)
        read == Len(new_tokens)
    IN  [tokens |-> new_tokens,
         prefix_offset |-> Max(read - InitialOffset, 0),
         read_offset |-> read]

EndsWithReplacement(text) == text # <<>> /\ text[Len(text)] = "U"

\* decode_step: the tokens of the last id, and the text they reveal beyond
\* the window prev_tokens[prefix_offset : read_offset]
detokenize_incrementally(all_input_ids, prev_tokens, prefix_offset, read_offset, skip, spaces) ==
    LET new_token_id == all_input_ids[Len(all_input_ids)]
        new_tokens == convert_ids_to_tokens(<<new_token_id>>, skip)
        output_tokens == prev_tokens \o new_tokens
        prefix_text == convert_tokens_to_string(
                           SubSeq(output_tokens, prefix_offset + 1, read_offset), spaces)
        new_text == convert_tokens_to_string(
                           SubSeq(output_tokens, prefix_offset + 1, Len(output_tokens)), spaces)
    IN  IF Len(new_text) <= Len(prefix_text) \/ EndsWithReplacement(new_text)
        THEN [new_tokens |-> new_tokens, text |-> <<>>,
              prefix_offset |-> prefix_offset, read_offset |-> read_offset]
        ELSE [new_tokens |-> new_tokens,
              text |-> SubSeq(new_text, Len(prefix_text) + 1, Len(new_text)),
              prefix_offset |-> read_offset, read_offset |-> Len(output_tokens)]

(* ------------------------------ registry ------------------------------ *)
\* the RequestState that add_request builds
RequestState(request_id, prompt_token_ids, skip, spaces) ==
    LET t == convert_prompt_ids_to_tokens(prompt_token_ids, skip)
    IN  [req_id |-> request_id,
         token_ids |-> prompt_token_ids,
         tokens |-> t.tokens,
         num_prompt_tokens |-> Len(prompt_token_ids),
         prefix_offset |-> t.prefix_offset,
         read_offset |-> t.read_offset,
         skip_special_tokens |-> skip,
         spaces_between_special_tokens |-> spaces,
         output_text |-> <<>>]

\* add_request as it would be if it dropped every other request
add_request_alone(reqs, request_id, prompt_token_ids, skip, spaces) ==
    [r \in {request_id} |-> RequestState(request_id, prompt_token_ids, skip, spaces)]

\* add_request as it would be if it kept what a request of the same id had
add_request_merge(reqs, request_id, prompt_token_ids, skip, spaces) ==
    [r \in DOMAIN reqs \cup {request_id} |->
        IF r # request_id THEN reqs[r]
        ELSE IF request_id \in DOMAIN reqs
             THEN [RequestState(request_id, prompt_token_ids, skip, spaces)
                     EXCEPT !.token_ids = reqs[request_id].token_ids \o prompt_token_ids,
                            !.output_text = reqs[request_id].output_text]
             ELSE RequestState(request_id, prompt_token_ids, skip, spaces)]

\* add_request as it would be if it registered nothing for an empty prompt
add_request_nonempty(reqs, request_id, prompt_token_ids, skip, spaces) ==
    IF prompt_token_ids = <<>> THEN reqs
    ELSE [r \in DOMAIN reqs \cup {request_id} |->
            IF r = request_id
            THEN RequestState(request_id, prompt_token_ids, skip, spaces)
            ELSE reqs[r]]

\* self.requests[request_id] = RequestState(...)
add_request(reqs, request_id, prompt_token_ids, skip, spaces) ==
    [r \in DOMAIN reqs \cup {request_id} |->
        IF r = request_id
        THEN RequestState(request_id, prompt_token_ids, skip, spaces)
        ELSE reqs[r]]

\* free as it would be if it left the request in the registry
free_deferred(reqs, request_id) == reqs

\* free as it would be if it emptied the registry
free_all(reqs, request_id) == [r \in {} |-> {}]

\* del self.requests[request_id], for a request_id that is a key
free(reqs, request_id) ==
    [r \in DOMAIN reqs \ {request_id} |-> reqs[r]]

\* the iteration as it would be if the new id were put first in token_ids
detokenize_one_prepend(req_state, new_token_id) ==
    LET ids == <<new_token_id>> \o req_state.token_ids
        d == detokenize_incrementally(Append(req_state.token_ids, new_token_id),
                                      req_state.tokens,
                                      req_state.prefix_offset, req_state.read_offset,
                                      req_state.skip_special_tokens,
                                      req_state.spaces_between_special_tokens)
    IN  [state |-> [req_state EXCEPT !.token_ids = ids,
                                     !.tokens = @ \o d.new_tokens,
                                     !.prefix_offset = d.prefix_offset,
                                     !.read_offset = d.read_offset,
                                     !.output_text = @ \o d.text],
         text |-> d.text]

\* the iteration as it would be if tokens were not extended
detokenize_one_notokens(req_state, new_token_id) ==
    LET ids == Append(req_state.token_ids, new_token_id)
        d == detokenize_incrementally(ids, req_state.tokens,
                                      req_state.prefix_offset, req_state.read_offset,
                                      req_state.skip_special_tokens,
                                      req_state.spaces_between_special_tokens)
    IN  [state |-> [req_state EXCEPT !.token_ids = ids,
                                     !.prefix_offset = d.prefix_offset,
                                     !.read_offset = d.read_offset,
                                     !.output_text = @ \o d.text],
         text |-> d.text]

\* the iteration as it would be if output_text were not added to
detokenize_one_forget(req_state, new_token_id) ==
    LET ids == Append(req_state.token_ids, new_token_id)
        d == detokenize_incrementally(ids, req_state.tokens,
                                      req_state.prefix_offset, req_state.read_offset,
                                      req_state.skip_special_tokens,
                                      req_state.spaces_between_special_tokens)
    IN  [state |-> [req_state EXCEPT !.token_ids = ids,
                                     !.tokens = @ \o d.new_tokens,
                                     !.prefix_offset = d.prefix_offset,
                                     !.read_offset = d.read_offset],
         text |-> d.text]

\* one iteration of the loop of detokenize over new_token_ids
detokenize_one(req_state, new_token_id) ==
    LET ids == Append(req_state.token_ids, new_token_id)
        d == detokenize_incrementally(ids, req_state.tokens,
                                      req_state.prefix_offset, req_state.read_offset,
                                      req_state.skip_special_tokens,
                                      req_state.spaces_between_special_tokens)
    IN  [state |-> [req_state EXCEPT !.token_ids = ids,
                                     !.tokens = @ \o d.new_tokens,
                                     !.prefix_offset = d.prefix_offset,
                                     !.read_offset = d.read_offset,
                                     !.output_text = @ \o d.text],
         text |-> d.text]

\* detokenize as it would be if it appended all the ids and decoded once
detokenize_batched(req_state, new_token_ids) ==
    IF new_token_ids = <<>> THEN [state |-> req_state, text |-> <<>>]
    ELSE LET ids == req_state.token_ids \o new_token_ids
             d == detokenize_incrementally(ids, req_state.tokens,
                                           req_state.prefix_offset, req_state.read_offset,
                                           req_state.skip_special_tokens,
                                           req_state.spaces_between_special_tokens)
         IN  [state |-> [req_state EXCEPT !.token_ids = ids,
                                          !.tokens = @ \o d.new_tokens,
                                          !.prefix_offset = d.prefix_offset,
                                          !.read_offset = d.read_offset,
                                          !.output_text = @ \o d.text],
              text |-> d.text]

\* detokenize: the state after all of new_token_ids and the decoded_text
RECURSIVE detokenize(_, _)
detokenize(req_state, new_token_ids) ==
    IF new_token_ids = <<>> THEN [state |-> req_state, text |-> <<>>]
    ELSE LET first == detokenize_one(req_state, Head(new_token_ids))
             rest == detokenize(first.state, Tail(new_token_ids))
         IN  [state |-> rest.state, text |-> first.text \o rest.text]

(* ------------------------------- frames ------------------------------- *)
\* number of fields of DetokenizerInputs
NumFields == 6

\* the zero-length payload, b""
Sentinel == <<>>

\* the place of an array whose entries are bound when they are read
Unbound == "unbound"

\* the entry at an index of an array: <<v>>, or Missing when the array is
\* shorter than the index
Missing == <<>>
Entries(S) == {Missing} \cup {<<v>> : v \in S}

\* the lists of request ids the engine sends as req_ids or free_req_ids:
\* none, one or two ids, the same id twice included
IdLists == SeqsUpTo(ReqIds, 2)

\* msgpack payloads of a DetokenizerInputs, in field order
Frames ==
    {<<ids, Unbound, Unbound, Unbound, Unbound, fr>> : ids \in IdLists, fr \in IdLists}

\* payloads cut short after their first field
Truncated == {<<ids>> : ids \in IdLists}

Messages == {Sentinel} \cup Truncated \cup Frames

\* whether msgpack_decoder.decode(message) returns a DetokenizerInputs
Decodable(message) == Len(message) = NumFields

\* msgpack_decoder.decode(message) of a decodable payload
DecodeInputs(message) ==
    [req_ids |-> message[1], free_req_ids |-> message[6]]

\* msgpack_encoder.encode(detokenized)
EncodeOutputs(d) == <<d.req_ids, d.detokenized_texts, d.num_output_token_ids>>

NoInputs == [req_ids |-> <<>>, free_req_ids |-> <<>>]
NoEntry == [req_id |-> "", absent |-> FALSE, carried |-> Missing,
            prompt_token_ids |-> Missing, new_token_ids |-> Missing,
            skip_special_tokens |-> Missing, spaces_between_special_tokens |-> Missing]
NoOutputs == [req_ids |-> <<>>, detokenized_texts |-> <<>>, num_output_token_ids |-> <<>>]

\* the entries of new_token_ids the engine may send for a request that has
\* generated `out` tokens so far
NewChoices(out) == {n \in NewLists : out + Len(n) <= MaxOut}

(* ------------------------------- state -------------------------------- *)
VARIABLES
    pc,                    \* position of run(): Idle, Free, Decode, Reply, Sent,
                           \* Shutdown, Crashed
    error,                 \* the exception that ended run(), "" if none
    requests,              \* self.requests: req_id -> RequestState
    inputs,                \* inputs, the decoded frame
    fi,                    \* position of the loop over inputs.free_req_ids
    i,                     \* i of the loop over range(num_reqs)
    detokenized_texts,     \* detokenized_texts
    num_output_token_ids,  \* num_output_token_ids
    detokenized,           \* detokenized, the DetokenizerOutputs built last
    push_queued,           \* frames queued at push_socket
    pushed,                \* history: the payload the current pass sent, <<>> if none
    numRecv,               \* history: payloads other than the sentinel received
    numSent,               \* history: payloads sent
    sentFor,               \* history: for each payload sent, the number of its frame
    reqsAtRecv,            \* history: self.requests when the current frame was received
    advanced,              \* history: ids given to detokenize per request since add_request
    entry,                 \* history: the entries of the frame at the index reached last
    calls,                 \* history: the detokenize calls of the current frame
    emitted,               \* history: the texts detokenize returned per request since
                           \* add_request, one after the other
    reported,              \* history: the detokenized_texts entries sent per request
                           \* since add_request, one after the other
    attempts,              \* history: calls of push_socket.send
    registered,            \* history: per request of the registry, what it was
                           \* registered with
    gotSentinel            \* history: whether the zero-length payload was received

vars == <<pc, error, requests, inputs, fi, i, detokenized_texts, num_output_token_ids,
          detokenized, push_queued, pushed, numRecv, numSent, sentFor, reqsAtRecv,
          advanced, entry, calls, emitted, reported, attempts, registered,
          gotSentinel>>

loopVars == <<inputs, fi, i, detokenized_texts, num_output_token_ids, detokenized>>
histVars == <<numRecv, numSent, sentFor, reqsAtRecv, advanced, entry, calls, emitted,
              reported, attempts, registered>>
passVars == <<inputs, fi, i, detokenized_texts, num_output_token_ids, detokenized, pushed,
              reqsAtRecv, entry, calls>>

EmptyRegistry == [r \in {} |-> {}]

\* __init__ and the sockets of run() before the loop
Init ==
    /\ pc = "Idle"
    /\ error = ""
    /\ requests = EmptyRegistry
    /\ inputs = NoInputs
    /\ fi = 1
    /\ i = 1
    /\ detokenized_texts = <<>>
    /\ num_output_token_ids = <<>>
    /\ detokenized = NoOutputs
    /\ push_queued = 0
    /\ pushed = <<>>
    /\ numRecv = 0
    /\ numSent = 0
    /\ sentFor = <<>>
    /\ reqsAtRecv = EmptyRegistry
    /\ advanced = [r \in ReqIds |-> 0]
    /\ entry = NoEntry
    /\ calls = <<>>
    /\ emitted = [r \in ReqIds |-> <<>>]
    /\ reported = [r \in ReqIds |-> <<>>]
    /\ attempts = 0
    /\ registered = [r \in ReqIds |-> Missing]
    /\ gotSentinel = FALSE

\* an exception leaves run(): the process ends
Raise(name) ==
    /\ pc' = "Crashed"
    /\ error' = name

\* the sentinel test as it would be if no payload were a terminate signal
IsTerminate_never(message) == FALSE

\* whether the payload is the terminate signal: message == b""
IsTerminate(message) == message = <<>>

\* message = self.pull_socket.recv(); the sentinel test; decode
Recv ==
    /\ pc = "Idle"
    /\ \E message \in Messages :
      /\ gotSentinel' = (message = Sentinel)
      /\ IF IsTerminate(message)
        THEN /\ pc' = "Shutdown"
             /\ UNCHANGED <<error, requests, push_queued, pushed>>
             /\ UNCHANGED loopVars
             /\ UNCHANGED histVars
        ELSE /\ numRecv < MaxFrames
             /\ numRecv' = numRecv + 1
             /\ UNCHANGED <<requests, push_queued, pushed, numSent, sentFor, advanced,
                            emitted, reported, attempts, registered>>
             /\ IF Decodable(message)
                THEN /\ inputs' = DecodeInputs(message)
                     /\ fi' = 1
                     /\ pc' = "Free"
                     /\ reqsAtRecv' = requests
                     /\ entry' = NoEntry
                     /\ calls' = <<>>
                     /\ UNCHANGED <<error, i, detokenized_texts, num_output_token_ids,
                                    detokenized>>
                ELSE /\ Raise("DecodeError")
                     /\ UNCHANGED loopVars
                     /\ UNCHANGED <<reqsAtRecv, entry, calls>>

\* one turn of: for req_id in inputs.free_req_ids: self.free(req_id); after
\* the last one the two result lists are created
FreeStep ==
    /\ pc = "Free"
    /\ UNCHANGED gotSentinel
    /\ UNCHANGED <<inputs, detokenized, push_queued, pushed>>
    /\ UNCHANGED <<numRecv, numSent, sentFor, reqsAtRecv, entry, calls, attempts>>
    /\ IF fi <= Len(inputs.free_req_ids)
       THEN LET req_id == inputs.free_req_ids[fi]
            IN  IF req_id \in DOMAIN requests
                THEN /\ requests' = free(requests, req_id)
                     /\ advanced' = [advanced EXCEPT ![req_id] = 0]
                     /\ emitted' = [emitted EXCEPT ![req_id] = <<>>]
                     /\ reported' = [reported EXCEPT ![req_id] = <<>>]
                     /\ registered' = [registered EXCEPT ![req_id] = Missing]
                     /\ fi' = fi + 1
                     /\ UNCHANGED <<pc, error, i, detokenized_texts, num_output_token_ids>>
                ELSE /\ Raise("KeyError")
                     /\ UNCHANGED <<requests, advanced, emitted, reported, registered,
                                    fi, i, detokenized_texts, num_output_token_ids>>
       ELSE /\ detokenized_texts' = <<>>
            /\ num_output_token_ids' = <<>>
            /\ i' = 1
            /\ pc' = "Decode"
            /\ UNCHANGED <<error, requests, advanced, emitted, reported, registered, fi>>

\* DetokenizerOutputs(req_ids=..., detokenized_texts=..., num_output_token_ids=...)
BuildOutputs(req_ids, texts, nums) ==
    [req_ids |-> req_ids, detokenized_texts |-> texts, num_output_token_ids |-> nums]

\* the count as it would be if the prompt tokens were not subtracted
NumOutputTokenIds_all(req_state) == Len(req_state.token_ids)

\* len(req_state.token_ids) - req_state.num_prompt_tokens
NumOutputTokenIds(req_state) == Len(req_state.token_ids) - req_state.num_prompt_tokens

\* the append as it would be if new_str were put first
AppendText_front(texts, new_str) == <<new_str>> \o texts

\* detokenized_texts.append(new_str)
AppendText(texts, new_str) == Append(texts, new_str)

\* the test as it would be if every index of a frame registered its request
MustRegister_always(reqs, req_id) == TRUE

\* whether run() registers req_id before it detokenizes
MustRegister(reqs, req_id) == req_id \notin DOMAIN reqs

\* one turn of: for i in range(num_reqs), or the exit of the loop, which
\* builds detokenized
DecodeStep ==
    /\ pc = "Decode"
    /\ UNCHANGED gotSentinel
    /\ UNCHANGED <<inputs, fi, push_queued, pushed>>
    /\ UNCHANGED <<numRecv, numSent, sentFor, reqsAtRecv, reported, attempts>>
    /\ IF i <= Len(inputs.req_ids)
       THEN LET req_id == inputs.req_ids[i]
                absent == MustRegister(requests, req_id)
                out == IF req_id \in DOMAIN requests
                       THEN NumOutputTokenIds(requests[req_id]) ELSE 0
            IN  \E reg \in Registrations, short \in SUBSET {1, 2, 3},
                   new \in Entries(NewChoices(out)) :
                  LET prompt == IF 1 \in short THEN Missing ELSE <<reg.prompt_token_ids>>
                      skip == IF 2 \in short THEN Missing ELSE <<reg.skip_special_tokens>>
                      spaces == IF 3 \in short THEN Missing
                                ELSE <<reg.spaces_between_special_tokens>>
                      noArgs == absent /\ (\/ prompt = Missing
                                            \/ skip = Missing
                                            \/ spaces = Missing)
                      reqs1 == IF absent /\ ~noArgs
                               THEN add_request(requests, req_id, prompt[1], skip[1],
                                                spaces[1])
                               ELSE requests
                      adv1 == IF absent THEN [advanced EXCEPT ![req_id] = 0] ELSE advanced
                      reg1 == IF absent /\ ~noArgs
                              THEN [registered EXCEPT ![req_id] =
                                      <<Registration(prompt[1], skip[1], spaces[1])>>]
                              ELSE registered
                      \* the arguments are evaluated in order: of an entry
                      \* that is not read nothing is kept
                      readSkip == absent /\ prompt # Missing
                      readSpaces == readSkip /\ skip # Missing
                  IN  /\ entry' = [req_id |-> req_id, absent |-> absent,
                                   carried |-> IF absent THEN Missing ELSE <<reg>>,
                                   prompt_token_ids |-> IF absent THEN prompt ELSE Missing,
                                   skip_special_tokens |-> IF readSkip THEN skip ELSE Missing,
                                   spaces_between_special_tokens |->
                                        IF readSpaces THEN spaces ELSE Missing,
                                   new_token_ids |-> IF noArgs THEN Missing ELSE new]
                      /\ IF noArgs
                         THEN /\ Raise("IndexError")
                              /\ UNCHANGED <<requests, i, detokenized_texts,
                                             num_output_token_ids, detokenized,
                                             advanced, emitted, registered, calls>>
                         ELSE IF new = Missing
                         THEN /\ Raise("IndexError")
                              /\ requests' = reqs1
                              /\ advanced' = adv1
                              /\ registered' = reg1
                              /\ UNCHANGED <<i, detokenized_texts, num_output_token_ids,
                                             detokenized, emitted, calls>>
                         ELSE IF req_id \notin DOMAIN reqs1
                         THEN \* req_state = self.requests[request_id] in detokenize
                              /\ Raise("KeyError")
                              /\ UNCHANGED <<requests, i, detokenized_texts,
                                             num_output_token_ids, detokenized,
                                             advanced, emitted, registered, calls>>
                         ELSE LET d == detokenize(reqs1[req_id], new[1])
                                  n == NumOutputTokenIds(d.state)
                              IN  /\ requests' = [reqs1 EXCEPT ![req_id] = d.state]
                                  /\ detokenized_texts' = AppendText(detokenized_texts, d.text)
                                  /\ num_output_token_ids' = Append(num_output_token_ids, n)
                                  /\ advanced' = [adv1 EXCEPT ![req_id] = @ + Len(new[1])]
                                  /\ emitted' = [emitted EXCEPT ![req_id] = @ \o d.text]
                                  /\ registered' = reg1
                                  /\ calls' = Append(calls,
                                        [req_id |-> req_id, text |-> d.text, num |-> n,
                                         sumk |-> adv1[req_id] + Len(new[1])])
                                  /\ i' = i + 1
                                  /\ UNCHANGED <<pc, error, detokenized>>
       ELSE /\ detokenized' = BuildOutputs(inputs.req_ids, detokenized_texts,
                                           num_output_token_ids)
            /\ pc' = "Reply"
            /\ UNCHANGED <<error, requests, i, detokenized_texts, num_output_token_ids,
                           advanced, emitted, registered, entry, calls>>

\* the detokenized_texts entries of a DetokenizerOutputs that are for
\* req_id, one after the other
RECURSIVE TextsOf(_, _, _)
TextsOf(req_id, req_ids, texts) ==
    IF req_ids = <<>> THEN <<>>
    ELSE (IF Head(req_ids) = req_id THEN Head(texts) ELSE <<>>)
         \o TextsOf(req_id, Tail(req_ids), Tail(texts))

TextsFor(req_id, d) == TextsOf(req_id, d.req_ids, d.detokenized_texts)

\* whether send(..., flags=zmq.NOBLOCK) can queue a frame
CanSend(queued) == queued < Hwm

\* the send as it would be without zmq.NOBLOCK: it waits for room
Reply_blocking ==
    /\ pc = "Reply"
    /\ CanSend(push_queued)
    /\ UNCHANGED gotSentinel
    /\ UNCHANGED <<requests, numRecv, reqsAtRecv, advanced, entry, calls, emitted,
                   registered>>
    /\ UNCHANGED loopVars
    /\ attempts' = attempts + 1
    /\ pushed' = EncodeOutputs(detokenized)
    /\ reported' = [r \in ReqIds |-> reported[r] \o TextsFor(r, detokenized)]
    /\ push_queued' = push_queued + 1
    /\ numSent' = numSent + 1
    /\ sentFor' = Append(sentFor, numRecv)
    /\ pc' = "Sent"
    /\ UNCHANGED error

\* the send as it would be if the frame were sent twice
Reply_twice ==
    /\ pc = "Reply"
    /\ UNCHANGED gotSentinel
    /\ UNCHANGED <<requests, numRecv, reqsAtRecv, advanced, entry, calls, emitted,
                   registered>>
    /\ UNCHANGED loopVars
    /\ attempts' = attempts + 1
    /\ IF CanSend(push_queued)
       THEN /\ pushed' = EncodeOutputs(detokenized)
            /\ reported' = [r \in ReqIds |-> reported[r] \o TextsFor(r, detokenized)]
            /\ push_queued' = push_queued + 1
            /\ numSent' = numSent + 2
            /\ sentFor' = Append(Append(sentFor, numRecv), numRecv)
            /\ pc' = "Sent"
            /\ UNCHANGED error
       ELSE /\ Raise("Again")
            /\ UNCHANGED <<push_queued, pushed, numSent, sentFor, reported>>

\* self.push_socket.send(self.msgpack_encoder.encode(detokenized), flags=zmq.NOBLOCK)
Reply ==
    /\ pc = "Reply"
    /\ UNCHANGED gotSentinel
    /\ UNCHANGED <<requests, numRecv, reqsAtRecv, advanced, entry, calls, emitted,
                   registered>>
    /\ UNCHANGED loopVars
    /\ attempts' = attempts + 1
    /\ IF CanSend(push_queued)
       THEN /\ pushed' = EncodeOutputs(detokenized)
            /\ reported' = [r \in ReqIds |-> reported[r] \o TextsFor(r, detokenized)]
            /\ push_queued' = push_queued + 1
            /\ numSent' = numSent + 1
            /\ sentFor' = Append(sentFor, numRecv)
            /\ pc' = "Sent"
            /\ UNCHANGED error
       ELSE /\ Raise("Again")
            /\ UNCHANGED <<push_queued, pushed, numSent, sentFor, reported>>

\* while True: back to recv(). The locals of the pass are rebound before
\* the next pass reads them, and are dropped here with the pass's history
NextPass ==
    /\ pc = "Sent"
    /\ UNCHANGED gotSentinel
    /\ pc' = "Idle"
    /\ inputs' = NoInputs
    /\ fi' = 1
    /\ i' = 1
    /\ detokenized_texts' = <<>>
    /\ num_output_token_ids' = <<>>
    /\ detokenized' = NoOutputs
    /\ pushed' = <<>>
    /\ reqsAtRecv' = EmptyRegistry
    /\ entry' = NoEntry
    /\ calls' = <<>>
    /\ UNCHANGED <<error, requests, push_queued, numRecv, numSent, sentFor, advanced,
                   emitted, reported, attempts, registered>>

\* the engine takes a frame off the outbound channel
EngineRecv ==
    /\ push_queued > 0
    /\ UNCHANGED gotSentinel
    /\ push_queued' = push_queued - 1
    /\ UNCHANGED <<pc, error, requests, pushed>>
    /\ UNCHANGED loopVars
    /\ UNCHANGED histVars

Next == Recv \/ FreeStep \/ DecodeStep \/ Reply \/ NextPass \/ EngineRecv

Spec == Init /\ [][Next]_vars

(* ------------------- detokenize applied on its own -------------------- *)
\* longest list of new token ids the laws of detokenize are checked for
MaxAdvance == 3

\* the token ids of the vocabulary
TokenIds == {1, 2, 3, 4}

\* the prompts a request is registered with when detokenize is applied on
\* its own
Prompts == {<<>>, <<3>>, <<4>>, <<1, 2, 3>>}

\* a registry of one request, registered by add_request
InitAdvance ==
    /\ pc = "Idle"
    /\ error = ""
    /\ \E prompt \in Prompts, skip \in BOOLEAN, spaces \in BOOLEAN :
         /\ requests = add_request(EmptyRegistry, "r1", prompt, skip, spaces)
         /\ registered = [r \in ReqIds |->
                            IF r = "r1" THEN <<Registration(prompt, skip, spaces)>>
                            ELSE Missing]
    /\ inputs = NoInputs
    /\ fi = 1
    /\ i = 1
    /\ detokenized_texts = <<>>
    /\ num_output_token_ids = <<>>
    /\ detokenized = NoOutputs
    /\ push_queued = 0
    /\ pushed = <<>>
    /\ numRecv = 0
    /\ numSent = 0
    /\ sentFor = <<>>
    /\ reqsAtRecv = EmptyRegistry
    /\ advanced = [r \in ReqIds |-> 0]
    /\ entry = NoEntry
    /\ calls = <<>>
    /\ emitted = [r \in ReqIds |-> <<>>]
    /\ reported = [r \in ReqIds |-> <<>>]
    /\ attempts = 0
    /\ gotSentinel = FALSE

\* self.detokenize(req_id, new_token_ids) on a live request
Advance ==
    \E req_id \in DOMAIN requests, ids \in SeqsUpTo(TokenIds, 2) :
        /\ NumOutputTokenIds(requests[req_id]) + Len(ids) <= MaxOut
        /\ requests' = [requests EXCEPT ![req_id] = detokenize(@, ids).state]
        /\ advanced' = [advanced EXCEPT ![req_id] = @ + Len(ids)]
        /\ emitted' = [emitted EXCEPT ![req_id] = @ \o detokenize(requests[req_id], ids).text]
        /\ UNCHANGED <<pc, error, push_queued, numRecv, numSent, sentFor, gotSentinel,
                       reported, attempts, registered>>
        /\ reqsAtRecv' = EmptyRegistry
        /\ entry' = NoEntry
        /\ UNCHANGED <<inputs, fi, i, detokenized_texts, num_output_token_ids, detokenized,
                       pushed, calls>>

NextAdvance == Advance

SpecAdvance == InitAdvance /\ [][NextAdvance]_vars

(* ------------------- add_request applied on its own ------------------- *)
\* self.add_request(request_id, prompt_token_ids, skip_special_tokens,
\* spaces_between_special_tokens) for a request_id that is in the registry;
\* reqsAtRecv keeps the registry before the call, entry its arguments
Register ==
    \E req_id \in DOMAIN requests, reg \in Registrations :
      LET prompt == reg.prompt_token_ids
          skip == reg.skip_special_tokens
          spaces == reg.spaces_between_special_tokens
      IN
        /\ requests' = add_request(requests, req_id, prompt, skip, spaces)
        /\ reqsAtRecv' = requests
        /\ entry' = [NoEntry EXCEPT !.req_id = req_id,
                                    !.absent = req_id \notin DOMAIN requests,
                                    !.prompt_token_ids = <<prompt>>,
                                    !.skip_special_tokens = <<skip>>,
                                    !.spaces_between_special_tokens = <<spaces>>]
        /\ advanced' = [advanced EXCEPT ![req_id] = 0]
        /\ emitted' = [emitted EXCEPT ![req_id] = <<>>]
        /\ registered' = [registered EXCEPT ![req_id] =
                            <<Registration(prompt, skip, spaces)>>]
        /\ UNCHANGED <<pc, error, push_queued, numRecv, numSent, sentFor, gotSentinel,
                       reported, attempts>>
        /\ UNCHANGED <<inputs, fi, i, detokenized_texts, num_output_token_ids, detokenized,
                       pushed, calls>>

NextRegister == Advance \/ Register

SpecRegister == InitAdvance /\ [][NextRegister]_vars

(* ------------------------------- claims ------------------------------- *)
Processing == pc \in {"Free", "Decode"}
InPass == pc \in {"Free", "Decode", "Reply", "Sent"}

\* C1: the response a pass sends has req_ids equal to the req_ids of the
\* frame, in the same order, and its two other arrays have one entry per
\* request id, entry k being what the k-th detokenize call of the pass, made
\* for req_ids[k], returned and counted.
C1_OrderPreserved ==
    pc = "Sent" =>
        /\ Len(pushed) = 3
        /\ pushed[1] = inputs.req_ids
        /\ Len(pushed[2]) = Len(inputs.req_ids)
        /\ Len(pushed[3]) = Len(inputs.req_ids)
        /\ Len(calls) = Len(inputs.req_ids)
        /\ \A k \in 1..Len(inputs.req_ids) :
              /\ calls[k].req_id = inputs.req_ids[k]
              /\ pushed[2][k] = calls[k].text
              /\ pushed[3][k] = calls[k].num

C1_Witness ==
    /\ pc = "Sent"
    /\ Len(inputs.req_ids) = 2
    /\ inputs.req_ids[1] # inputs.req_ids[2]
    /\ pushed[2][1] # pushed[2][2]
    /\ pushed[3][1] # pushed[3][2]

\* C2: the num_output_token_ids reported for a request equals the number of
\* new token ids given to detokenize for it since it was registered,
\* whatever the number of prompt tokens, over any number of frames and when
\* the id occurs twice in a frame.
C2_TokenCount ==
    /\ \A r \in DOMAIN requests : NumOutputTokenIds(requests[r]) = advanced[r]
    /\ \A k \in 1..Len(num_output_token_ids) : num_output_token_ids[k] = calls[k].sumk
    /\ pc = "Sent" => \A k \in 1..Len(calls) : pushed[3][k] = calls[k].sumk

C2_Witness ==
    /\ pc = "Sent"
    /\ numRecv = 2
    /\ inputs.req_ids = <<"r1">>
    /\ "r1" \in DOMAIN reqsAtRecv
    /\ reqsAtRecv["r1"].token_ids = <<1, 2, 3, 4>>
    /\ requests["r1"].token_ids = <<1, 2, 3, 4, 4>>
    /\ pushed[3] = <<2>>

\* the last step of run() reached an index whose request id was absent from
\* the registry and whose prompt_token_ids entry is empty, the other entries
\* of the index being there
AbsentWithEmptyPrompt ==
    /\ pc \in {"Decode", "Reply", "Sent", "Crashed"}
    /\ entry.absent
    /\ entry.prompt_token_ids = <<<<>>>>
    /\ entry.new_token_ids # Missing

\* C3 as claimed: a request id absent from the registry that a frame names
\* with empty prompt_token_ids fails with UnknownRequest (a KeyError), and no
\* RequestState is created for it.
C3_Original ==
    AbsentWithEmptyPrompt =>
        /\ error = "KeyError"
        /\ entry.req_id \notin DOMAIN requests

\* C3 as amended: a request id absent from the registry that a frame names
\* with empty prompt_token_ids is registered with the empty prompt: no
\* KeyError is raised, and its RequestState has num_prompt_tokens = 0 and,
\* after the step, exactly the new token ids of the entry as token_ids.
C3_Amended ==
    AbsentWithEmptyPrompt =>
        /\ error # "KeyError"
        /\ entry.req_id \in DOMAIN requests
        /\ requests[entry.req_id].num_prompt_tokens = 0
        /\ requests[entry.req_id].token_ids = entry.new_token_ids[1]

C3_Witness ==
    /\ pc = "Sent"
    /\ AbsentWithEmptyPrompt
    /\ entry.req_id \in DOMAIN reqsAtRecv
    /\ inputs.free_req_ids = <<entry.req_id>>
    /\ inputs.req_ids = <<entry.req_id>>
    /\ entry.new_token_ids = << <<3, 3>> >>

\* C4: once the zero-length payload is received run() is at Shutdown, and
\* from then on it sends no frame, leaves the registry as it is and
\* receives no further payload.
C4_Shutdown ==
    [][gotSentinel' =>
          /\ pc' = "Shutdown"
          /\ pc \in {"Idle", "Shutdown"}
          /\ UNCHANGED <<requests, numRecv, numSent, sentFor, pushed, error, inputs>>]_vars

C4_Witness ==
    /\ pc = "Shutdown"
    /\ gotSentinel
    /\ numSent = 1
    /\ DOMAIN requests # {}

\* the state and the text of decoding ids one id per detokenize call
RECURSIVE OneAtATime(_, _)
OneAtATime(req_state, ids) ==
    IF ids = <<>> THEN [state |-> req_state, text |-> <<>>]
    ELSE LET first == detokenize(req_state, <<Head(ids)>>)
             rest == OneAtATime(first.state, Tail(ids))
         IN  [state |-> rest.state, text |-> first.text \o rest.text]

\* C5: for every live request state and every list of new token ids,
\* detokenize in one call returns the same text and leaves the same state as
\* one call per id in the same order with the texts concatenated; with no
\* ids it returns the empty text and changes nothing.
C5_IncrementalConsistency ==
    \A r \in DOMAIN requests :
        /\ detokenize(requests[r], <<>>) = [state |-> requests[r], text |-> <<>>]
        /\ \A ids \in SeqsUpTo(TokenIds, MaxAdvance) :
              detokenize(requests[r], ids) = OneAtATime(requests[r], ids)

C5_Witness ==
    \E r \in DOMAIN requests :
        /\ NumOutputTokenIds(requests[r]) = 1
        /\ detokenize(requests[r], <<4>>).text # <<>>
        /\ detokenize(detokenize(requests[r], <<4>>).state, <<3, 3>>).text # <<>>
        /\ detokenize(requests[r], <<4, 3, 3>>).text
              = detokenize(requests[r], <<4>>).text
                \o detokenize(detokenize(requests[r], <<4>>).state, <<3, 3>>).text

\* the evictions and the requests of the frame other than the failing
\* eviction are applied, and a response is sent
OthersAppliedAndReported ==
    /\ pushed # <<>>
    /\ \A k \in 1..Len(inputs.free_req_ids) :
          (k # fi /\ inputs.free_req_ids[k] \in DOMAIN requests)
              => \E j \in 1..Len(inputs.req_ids) :
                    inputs.req_ids[j] = inputs.free_req_ids[k]
    /\ \A j \in 1..Len(inputs.req_ids) : inputs.req_ids[j] \in DOMAIN requests

\* C6 as claimed: when the eviction of an absent id fails while a frame is
\* processed, either the registry is as it was when the frame was received,
\* or only the failing eviction is left out and everything else of the frame
\* is applied and reported.
C6_Claim ==
    (pc = "Crashed" /\ error = "KeyError")
        => (requests = reqsAtRecv \/ OthersAppliedAndReported)

\* C7 as claimed: a frame one of whose arrays is shorter than req_ids, so
\* that an index of it is missing, is rejected with the registry as it was
\* when the frame was received: no eviction, registration or advance of the
\* frame is applied.
C7_Claim ==
    (pc = "Crashed" /\ error = "IndexError") => requests = reqsAtRecv

\* C8: passes do not overlap: no request is decoded before every eviction
\* of the frame is done, no response is built or sent before every request
\* of the frame is decoded, a payload is received only when every frame
\* before it is answered, and the responses are sent one per frame in the
\* order of the frames.
C8_Sequential ==
    /\ numSent <= numRecv
    /\ Len(sentFor) = numSent
    /\ \A k \in 1..Len(sentFor) : sentFor[k] = k
    /\ pc \in {"Decode", "Reply", "Sent"} => fi = Len(inputs.free_req_ids) + 1
    /\ pc \in {"Reply", "Sent"} =>
          /\ i = Len(inputs.req_ids) + 1
          /\ Len(calls) = Len(inputs.req_ids)
    /\ pc = "Sent" => (numSent = numRecv /\ pushed = EncodeOutputs(detokenized))
    /\ pc \in {"Free", "Decode", "Reply"} => (numSent = numRecv - 1 /\ pushed = <<>>)
    /\ pc = "Idle" => numSent = numRecv

C8_Witness ==
    /\ pc = "Sent"
    /\ sentFor = <<1, 2>>
    /\ Len(inputs.free_req_ids) = 2
    /\ Len(inputs.req_ids) = 2

\* C9 as claimed: neither the eviction of an absent request id nor a send
\* that fails ends run(): the worker stops only on the sentinel.
C9_Claim ==
    /\ pc \in {"Shutdown", "Crashed"} => (gotSentinel \/ error \notin {"KeyError", "Again"})
    /\ pc = "Shutdown" => gotSentinel

\* the frame in hand has no request id and no id to free
EmptyBatchInHand ==
    /\ pc \in {"Free", "Decode", "Reply", "Sent", "Crashed"}
    /\ error # "DecodeError"
    /\ inputs.req_ids = <<>>
    /\ inputs.free_req_ids = <<>>

\* C10 as claimed: a frame with no entries is not the sentinel: it leaves
\* the registry as it is, run() does not end on it, and the response sent
\* for it has three empty arrays.
C10_Claim ==
    EmptyBatchInHand =>
        /\ ~gotSentinel
        /\ requests = reqsAtRecv
        /\ pc # "Crashed"
        /\ pc = "Sent" => pushed = <<<<>>, <<>>, <<>>>>

\* C11: the output_text of every request in the registry is the texts that
\* detokenize returned for it since add_request, one after the other in the
\* order of the calls; and whenever run() is between two passes these are
\* the detokenized_texts entries sent for the request since add_request, in
\* the order they were sent.
C11_OutputText ==
    /\ \A r \in DOMAIN requests : requests[r].output_text = emitted[r]
    /\ pc \in {"Idle", "Sent", "Shutdown"} =>
          \A r \in DOMAIN requests : requests[r].output_text = reported[r]

C11_Witness ==
    /\ pc = "Sent"
    /\ numSent = 2
    /\ \E r \in DOMAIN requests :
          /\ r \in DOMAIN reqsAtRecv
          /\ reqsAtRecv[r].output_text # <<>>
          /\ TextsFor(r, detokenized) # <<>>
          /\ requests[r].output_text = reqsAtRecv[r].output_text \o TextsFor(r, detokenized)

\* a step of run() other than the recv() of a payload can be taken
CanStep == ENABLED (FreeStep \/ DecodeStep \/ Reply \/ NextPass)

\* C12: run() waits nowhere but in recv(): past it a step can always be
\* taken.  At the send it makes one attempt for the frame, which queues the
\* response when the outbound channel has room and fails at once when it
\* has none; a response that was not queued is never sent later, however
\* much room the channel gets.
C12_NonBlockingSend ==
    [][/\ pc' \in {"Free", "Decode", "Reply", "Sent"} => CanStep'
       /\ attempts' <= numRecv'
       /\ pc' \in {"Idle", "Sent", "Shutdown"} => attempts' = numRecv'
       /\ pc = "Reply" /\ pc' # "Reply" =>
             /\ attempts' = attempts + 1
             /\ attempts' = numRecv
             /\ IF push_queued < Hwm
                THEN pc' = "Sent" /\ numSent' = numSent + 1
                     /\ push_queued' = push_queued + 1
                ELSE pc' = "Crashed" /\ error' = "Again"
                     /\ numSent' = numSent /\ push_queued' = push_queued
       /\ pc = "Crashed" =>
             pc' = "Crashed" /\ numSent' = numSent /\ attempts' = attempts]_vars

C12_Witness ==
    /\ pc = "Crashed"
    /\ error = "Again"
    /\ attempts = 2
    /\ numSent = 1
    /\ push_queued = 0

\* the last step of run() decoded, first in the frame, the request at the
\* index before i, which was in the registry when the frame was received and
\* is named in free_req_ids also
FreedAndNamed ==
    /\ pc \in {"Decode", "Reply", "Sent"}
    /\ entry.req_id \in DOMAIN reqsAtRecv
    /\ \E k \in 1..Len(inputs.free_req_ids) : inputs.free_req_ids[k] = entry.req_id
    /\ Len(calls) = i - 1
    /\ i >= 2
    /\ inputs.req_ids[i - 1] = entry.req_id
    /\ \A k \in 1..(i - 2) : inputs.req_ids[k] # entry.req_id

\* C13: while run() frees the ids of free_req_ids no request of the frame
\* has yet been registered or decoded, and once it decodes all of them are
\* freed; so a request that was in the registry when the frame was received
\* and is named in both free_req_ids and req_ids is registered anew from
\* the prompt_token_ids entry of the frame and decoded from that state, and
\* the count reported for it is the length of its new_token_ids entry.
C13_FreeBeforeDecode ==
    /\ pc = "Free" => calls = <<>>
    /\ pc \in {"Decode", "Reply", "Sent"} => fi = Len(inputs.free_req_ids) + 1
    /\ FreedAndNamed =>
          /\ entry.absent
          /\ requests[entry.req_id] =
                detokenize(RequestState(entry.req_id, entry.prompt_token_ids[1],
                                        entry.skip_special_tokens[1],
                                        entry.spaces_between_special_tokens[1]),
                           entry.new_token_ids[1]).state
          /\ num_output_token_ids[i - 1] = Len(entry.new_token_ids[1])

C13_Witness ==
    /\ pc = "Sent"
    /\ FreedAndNamed
    /\ NumOutputTokenIds(reqsAtRecv[entry.req_id]) = 2
    /\ reqsAtRecv[entry.req_id].output_text # <<>>
    /\ entry.new_token_ids = << <<4>> >>
    /\ pushed[3] = <<1>>

\* the flags and the number of prompt tokens of every request of the
\* registry are those it was registered with
AsRegistered ==
    \A r \in DOMAIN requests :
        /\ registered[r] # Missing
        /\ requests[r].skip_special_tokens = registered[r][1].skip_special_tokens
        /\ requests[r].spaces_between_special_tokens
              = registered[r][1].spaces_between_special_tokens
        /\ requests[r].num_prompt_tokens = Len(registered[r][1].prompt_token_ids)

\* C14: no step of run() changes skip_special_tokens,
\* spaces_between_special_tokens or num_prompt_tokens of a request that
\* stays in the registry, whatever the frame carries for it, so that until
\* it is freed they are those it was registered with.
C14_FlagsFixed ==
    [][/\ \A r \in DOMAIN requests \cap DOMAIN requests' :
             /\ requests'[r].skip_special_tokens = requests[r].skip_special_tokens
             /\ requests'[r].spaces_between_special_tokens
                   = requests[r].spaces_between_special_tokens
             /\ requests'[r].num_prompt_tokens = requests[r].num_prompt_tokens
       /\ AsRegistered']_vars

\* a second frame carried, for a request registered by the first, flags
\* other than the request's and a prompt that is not empty
C14_Witness ==
    /\ pc = "Sent"
    /\ numRecv = 2
    /\ ~entry.absent
    /\ entry.carried # Missing
    /\ entry.req_id \in DOMAIN reqsAtRecv
    /\ entry.carried[1].prompt_token_ids # <<>>
    /\ entry.carried[1].skip_special_tokens
          # requests[entry.req_id].skip_special_tokens
    /\ entry.carried[1].spaces_between_special_tokens
          # requests[entry.req_id].spaces_between_special_tokens
    /\ requests[entry.req_id].num_prompt_tokens = 0
    /\ Len(requests[entry.req_id].token_ids) = 2

\* token_ids of every request of the registry starts with the prompt the
\* request was registered with
PromptKept ==
    \A r \in DOMAIN requests :
        /\ registered[r] # Missing
        /\ Len(requests[r].token_ids) >= requests[r].num_prompt_tokens
        /\ SubSeq(requests[r].token_ids, 1, requests[r].num_prompt_tokens)
              = registered[r][1].prompt_token_ids

\* C15: token_ids of a request of the registry is never shorter than
\* num_prompt_tokens and starts with the prompt ids the request was
\* registered with; the step of run() that decodes an index of a frame
\* leaves token_ids of its request as it was (the prompt, when the step
\* registers the request) followed by the new_token_ids entry of the index,
\* and no step shortens or alters the token_ids a request has.
C15_AppendOnly ==
    [][/\ PromptKept'
       /\ \A r \in DOMAIN requests \cap DOMAIN requests' :
             /\ Len(requests'[r].token_ids) >= Len(requests[r].token_ids)
             /\ SubSeq(requests'[r].token_ids, 1, Len(requests[r].token_ids))
                   = requests[r].token_ids
       /\ (pc = "Decode" /\ i' = i + 1) =>
             LET r == inputs.req_ids[i]
                 before == IF r \in DOMAIN requests THEN requests[r].token_ids
                           ELSE entry'.prompt_token_ids[1]
             IN  requests'[r].token_ids = before \o entry'.new_token_ids[1]]_vars

C15_Witness ==
    /\ pc = "Sent"
    /\ numRecv = 2
    /\ \E r \in DOMAIN requests :
          /\ r \in DOMAIN reqsAtRecv
          /\ registered[r] # Missing
          /\ registered[r][1].prompt_token_ids = <<1, 2, 3>>
          /\ reqsAtRecv[r].token_ids = <<1, 2, 3, 4>>
          /\ entry.req_id = r
          /\ entry.new_token_ids = << <<4>> >>
          /\ requests[r].token_ids = <<1, 2, 3, 4, 4>>

\* the offsets of a request state are within its tokens
OffsetsOk(req_state) ==
    /\ 0 <= req_state.prefix_offset
    /\ req_state.prefix_offset <= req_state.read_offset
    /\ req_state.read_offset <= Len(req_state.tokens)

\* the offsets the decoder returns for one more id are within the tokens
\* it was given and those it returns
DecoderOffsetsOk(req_state, new_token_id) ==
    LET d == detokenize_incrementally(Append(req_state.token_ids, new_token_id),
                                      req_state.tokens,
                                      req_state.prefix_offset, req_state.read_offset,
                                      req_state.skip_special_tokens,
                                      req_state.spaces_between_special_tokens)
    IN  /\ 0 <= d.prefix_offset
        /\ d.prefix_offset <= d.read_offset
        /\ d.read_offset <= Len(req_state.tokens) + Len(d.new_tokens)

\* C16: the decoder returning offsets within the tokens, every request
\* state that add_request builds and every state detokenize passes through,
\* after each id of new_token_ids, has
\* 0 <= prefix_offset <= read_offset <= len(tokens).
C16_Offsets ==
    \A r \in DOMAIN requests :
        /\ OffsetsOk(requests[r])
        /\ \A id \in TokenIds :
              DecoderOffsetsOk(requests[r], id)
                  => OffsetsOk(detokenize_one(requests[r], id).state)
        /\ \A ids \in SeqsUpTo(TokenIds, MaxAdvance) :
              OffsetsOk(detokenize(requests[r], ids).state)

\* a state whose last token is held back (read_offset < len(tokens)), from
\* which two more ids move both offsets
C16_Witness ==
    \E r \in DOMAIN requests :
        /\ NumOutputTokenIds(requests[r]) >= 1
        /\ requests[r].prefix_offset >= 1
        /\ requests[r].read_offset < Len(requests[r].tokens)
        /\ DecoderOffsetsOk(requests[r], 3)
        /\ detokenize(requests[r], <<3, 1>>).state.prefix_offset
              > detokenize(requests[r], <<3>>).state.prefix_offset
        /\ detokenize(requests[r], <<3>>).state.prefix_offset
              > requests[r].prefix_offset

\* C17: add_request for an id that is in the registry leaves for it the
\* state it builds for an id that is not: token_ids are the prompt ids,
\* num_prompt_tokens their number, tokens and offsets those of the prompt,
\* the flags those given, and output_text empty; nothing of the state the
\* id had is kept.
C17_ReRegister ==
    (entry.req_id # "" /\ ~entry.absent) =>
        LET st == requests[entry.req_id]
            prompt == entry.prompt_token_ids[1]
            t == convert_prompt_ids_to_tokens(prompt, entry.skip_special_tokens[1])
        IN  /\ st.req_id = entry.req_id
            /\ st.token_ids = prompt
            /\ st.num_prompt_tokens = Len(prompt)
            /\ st.tokens = t.tokens
            /\ st.prefix_offset = t.prefix_offset
            /\ st.read_offset = t.read_offset
            /\ st.skip_special_tokens = entry.skip_special_tokens[1]
            /\ st.spaces_between_special_tokens = entry.spaces_between_special_tokens[1]
            /\ st.output_text = <<>>
            /\ DOMAIN requests = DOMAIN reqsAtRecv

C17_Witness ==
    /\ entry.req_id # ""
    /\ ~entry.absent
    /\ reqsAtRecv[entry.req_id].output_text # <<>>
    /\ NumOutputTokenIds(reqsAtRecv[entry.req_id]) = 2
    /\ reqsAtRecv[entry.req_id].num_prompt_tokens = 1
    /\ entry.prompt_token_ids = << <<1, 2, 3>> >>
    /\ entry.skip_special_tokens[1] # reqsAtRecv[entry.req_id].skip_special_tokens
    /\ requests[entry.req_id].token_ids = <<1, 2, 3>>

\* C18: the step of run() that frees an id of free_req_ids removes the
\* state of that id and of no other when the id is in the registry; when it
\* is not (never registered, freed by an earlier frame, or named earlier in
\* the same free_req_ids) the step fails with KeyError and leaves the
\* registry as it is.
C18_Evict ==
    [][(pc = "Free" /\ fi <= Len(inputs.free_req_ids) /\ (fi' # fi \/ pc' # pc)) =>
          LET req_id == inputs.free_req_ids[fi]
          IN  IF req_id \in DOMAIN requests
              THEN /\ DOMAIN requests' = DOMAIN requests \ {req_id}
                   /\ \A r \in DOMAIN requests' : requests'[r] = requests[r]
                   /\ pc' = "Free"
                   /\ error' = ""
              ELSE /\ pc' = "Crashed"
                   /\ error' = "KeyError"
                   /\ requests' = requests]_vars

\* the second naming of an id in free_req_ids failed, another request
\* staying in the registry
C18_Witness ==
    /\ pc = "Crashed"
    /\ error = "KeyError"
    /\ fi = 2
    /\ inputs.free_req_ids[1] = inputs.free_req_ids[2]
    /\ inputs.free_req_ids[1] \in DOMAIN reqsAtRecv
    /\ DOMAIN requests = DOMAIN reqsAtRecv \ {inputs.free_req_ids[1]}
    /\ DOMAIN requests # {}
    /\ \A r \in DOMAIN requests : requests[r] = reqsAtRecv[r]

\* the ids a list names
Named(ids) == {ids[k] : k \in 1..Len(ids)}

\* every request of the frame in hand that was in the registry when the
\* frame was received and is named neither in req_ids nor in free_req_ids
\* has the state it had
OthersUntouched ==
    \A r \in DOMAIN reqsAtRecv \ (Named(inputs.req_ids) \cup Named(inputs.free_req_ids)) :
        /\ r \in DOMAIN requests
        /\ requests[r] = reqsAtRecv[r]

\* C19: over a frame, every request of the registry that the frame names
\* neither in req_ids nor in free_req_ids keeps every field of its state;
\* and the step that registers or decodes the request at an index of
\* req_ids changes the state of no other request.
C19_FrameEffect ==
    [][/\ OthersUntouched'
       /\ pc = "Decode" =>
             \A r \in DOMAIN requests :
                 (i > Len(inputs.req_ids) \/ r # inputs.req_ids[i]) =>
                     /\ r \in DOMAIN requests'
                     /\ requests'[r] = requests[r]]_vars

\* a frame that names r2 twice and frees nothing is answered, r1 having the
\* state, with text, that it had
C19_Witness ==
    /\ pc = "Sent"
    /\ DOMAIN reqsAtRecv = {"r1", "r2"}
    /\ inputs.free_req_ids = <<>>
    /\ inputs.req_ids = <<"r2", "r2">>
    /\ requests["r2"] # reqsAtRecv["r2"]
    /\ requests["r1"] = reqsAtRecv["r1"]
    /\ requests["r1"].output_text # <<>>

\* C20: when a frame is answered the ids of the registry are those it had
\* when the frame was received, less the ids of free_req_ids, plus the ids
\* of req_ids; and outside the steps that free and register, the registry
\* keeps its ids.
C20_LiveSet ==
    [][/\ pc' = "Sent" =>
             DOMAIN requests' = (DOMAIN reqsAtRecv' \ Named(inputs'.free_req_ids))
                                    \cup Named(inputs'.req_ids)
       /\ DOMAIN requests' \subseteq DOMAIN requests \cup Named(inputs.req_ids)
       /\ DOMAIN requests \subseteq DOMAIN requests' \cup Named(inputs.free_req_ids)
       /\ pc \notin {"Free", "Decode"} => DOMAIN requests' = DOMAIN requests]_vars

C20_Witness ==
    /\ pc = "Sent"
    /\ DOMAIN reqsAtRecv = {"r1"}
    /\ inputs.free_req_ids = <<"r1">>
    /\ inputs.req_ids = <<"r2">>
    /\ DOMAIN requests = {"r2"}

====
